---- MODULE Spec2Model ----
(***************************************************************************)
(* Model of the embedding-app repository: the retrieval-with-fallback      *)
(* routine of the ask-question route and the ingest worker (text           *)
(* normalisation, sentence chunking, per-chunk embedding and persistence,  *)
(* document status), and the helpers of src/utils/index.ts called on their *)
(* own (sanitizeText, splitIntoChunks, the PDF page rendering).            *)
(*                                                                         *)
(* Strings are sequences of Unicode code points.  A numeric threshold is   *)
(* kept as its decimal text ("0.3"); "null" stands for null/undefined.     *)
(***************************************************************************)
EXTENDS Integers, Sequences, FiniteSets, TLC

VARIABLES
    \* ---- retrieveWithFallback (src/app/api/ask-question/route.tsx) ----
    r_pc,        \* "idle" | "loop" | "returned" | "thrown"
    r_query,     \* queryEmbedding passed by the caller
    r_tries,     \* the tiers of this call
    r_i,         \* 1-based position of the tier the loop is at
    r_calls,     \* every supabase.rpc call made so far, in order, with its response
    r_result,    \* the value returned
    r_error,     \* the error thrown (<<>>: none)
    \* ---- ingest worker ----
    handler,     \* which POST of the repository serves /api/ingest-worker
    file,        \* raw text the extraction library yields for the stored binary
    mimetype,    \* mimetype of the job
    status,      \* documents.status ("none": the row does not exist)
    error_message, \* documents.error_message
    sections,    \* rows of document_sections of the document, in insertion order
    w_pc,        \* "nojob" (no job published) | "idle" | "download" | "extract" |
                 \* "embed" | "insert" | "markReady" | "done"
    extractedText,
    chunks,
    index,       \* the loop variable (0-based, as in the code)
    response,    \* HTTP status of the last response of the worker (0: none yet)
    runs,        \* number of deliveries of the job so far
    \* ---- what the current run has done (history) ----
    run,         \* record, see RunInit
    \* ---- one call of a helper of src/utils/index.ts ----
    u_fn,        \* the helper called ("none": no call)
    u_args,      \* the arguments of the call
    u_ret,       \* what the call returned (<<>> until it returns)
    u_pc,        \* "none" | "called" | "returned"
    \* ---- the upload routes (send-file, enqueue-ingest) ----
    up_route,    \* which route took the request
    up_pc,       \* "idle" | "store" | "insert" | "publish" | "done"
    up_response, \* HTTP status of the route's response (0: none yet)
    \* ---- POST of /api/ask-question (src/app/api/ask-question/route.tsx) ----
    a_pc,        \* "parse" | "embedding" | "retrieve" | "complete" | "done"
    a_message,   \* the message of the request body
    a_embedding, \* questionEmbedding
    a_failure,   \* the call that raised inside the try block ("none": none did)
    a_response,  \* what the handler returned to its caller (Undefined: nothing)
    a_dropped    \* the response the catch block built and did not return

rvars == <<r_pc, r_query, r_tries, r_i, r_calls, r_result, r_error>>
wvars == <<handler, file, mimetype, status, error_message, sections, w_pc,
           extractedText, chunks, index, response, runs, run>>
uvars == <<u_fn, u_args, u_ret, u_pc>>
pvars == <<up_route, up_pc, up_response>>
avars == <<a_pc, a_message, a_embedding, a_failure, a_response, a_dropped>>
vars == <<rvars, wvars, uvars, pvars, avars>>

\* Deliveries of one job that the model follows (the first one and redeliveries).
MaxRuns == 2

NULL == "null"

\* The value of a handler that falls off its end without a return statement, as a response
\* record: no response at all.
Undefined == [isResponse |-> FALSE, status |-> 0, key |-> NULL, text |-> <<>>]

(***************************************************************************)
(* Strings                                                                 *)
(***************************************************************************)
Rep(c, n) == [i \in 1..n |-> c]

\* White space of String.prototype.trim and of \s
IsWs(c) ==
    c \in ({9, 10, 11, 12, 13, 32, 160, 5760, 8232, 8233, 8239, 8287, 12288, 65279}
             \cup (8192..8202))

trim(s) ==
    LET keep == {i \in 1..Len(s) : ~IsWs(s[i])}
        lo == CHOOSE i \in keep : \A j \in keep : i <= j
        hi == CHOOSE i \in keep : \A j \in keep : j <= i
    IN IF keep = {} THEN <<>> ELSE SubSeq(s, lo, hi)

SetToSortedSeq(S) ==
    [i \in 1..Cardinality(S) |-> CHOOSE x \in S : Cardinality({y \in S : y < x}) = i - 1]

RECURSIVE Flatten(_)
Flatten(ss) == IF ss = <<>> THEN <<>> ELSE Head(ss) \o Flatten(Tail(ss))

\* Array.prototype.join
RECURSIVE JoinWith(_, _)
JoinWith(parts, sep) ==
    IF parts = <<>> THEN <<>>
    ELSE IF Len(parts) = 1 THEN parts[1]
    ELSE parts[1] \o sep \o JoinWith(Tail(parts), sep)

\* Math.abs
Abs(v) == IF v < 0 THEN -v ELSE v

(***************************************************************************)
(* sanitizeText and splitIntoChunks (src/utils/index.ts; the worker in     *)
(* src/app/api/ingest-worker/route.ts carries identical private copies)    *)
(***************************************************************************)
\* The characters the map callback turns into a space.
IsControlMut(codePoint) ==
    \/ (codePoint <= 31 /\ codePoint # 9 /\ codePoint # 10 /\ codePoint # 13)
    \/ (codePoint > 127 /\ codePoint <= 159)
IsControl(codePoint) ==
    \/ (codePoint <= 31 /\ codePoint # 9 /\ codePoint # 10 /\ codePoint # 13)
    \/ (codePoint >= 127 /\ codePoint <= 159)

sanitizeTextMut(input) ==
    IF input = <<>> THEN <<>>
    ELSE LET mapped == SelectSeq(input, LAMBDA c : ~IsControl(c))
             cleaned == [i \in 1..Len(mapped) |->
                           IF mapped[i] = 65533 THEN 32 ELSE mapped[i]]
         IN trim(cleaned)
sanitizeText(input) ==
    IF input = <<>> THEN <<>>
    ELSE LET mapped == [i \in 1..Len(input) |->
                           IF IsControl(input[i]) THEN 32 ELSE input[i]]
             cleaned == [i \in 1..Len(mapped) |->
                           IF mapped[i] = 65533 THEN 32 ELSE mapped[i]]
         IN trim(cleaned)

\* String.prototype.split, given the positions the matches of the pattern cover (each
\* maximal run of them is one match); empty pieces are kept, as split keeps them.
SplitOnRuns(s, seps) ==
    LET n == Len(s)
        st == SetToSortedSeq({j \in seps : (j - 1) \notin seps})
        en == SetToSortedSeq({j \in seps : (j + 1) \notin seps})
        cnt == Len(st)
    IN [t \in 1..(cnt + 1) |->
           SubSeq(s, IF t = 1 THEN 1 ELSE en[t - 1] + 1,
                     IF t = cnt + 1 THEN n ELSE st[t] - 1)]

\* text.replace(/\r\n?/g, "\n")
NormalizeNewlines(text) ==
    LET marked == [i \in 1..Len(text) |->
                      IF text[i] = 13 THEN 10
                      ELSE IF text[i] = 10 /\ i > 1 /\ text[i - 1] = 13 THEN -1
                      ELSE text[i]]
    IN SelectSeq(marked, LAMBDA c : c # -1)

\* .split(/\n+/)
Paragraphs(text) ==
    LET t == NormalizeNewlines(text)
    IN SplitOnRuns(t, {j \in 1..Len(t) : t[j] = 10})

\* p.split(/(?<=[.!?])\s+/).map(trim).filter(length > 0): a match is a run of white space
\* that begins right after one of . ! ?
SentencesOf(p) ==
    LET seps == {j \in 1..Len(p) :
                    /\ IsWs(p[j])
                    /\ \E b \in 2..j : /\ p[b - 1] \in {46, 33, 63}
                                       /\ \A m \in b..j : IsWs(p[m])}
        pieces == SplitOnRuns(p, seps)
        trimmed == [k \in 1..Len(pieces) |-> trim(pieces[k])]
    IN SelectSeq(trimmed, LAMBDA x : Len(x) > 0)

\* paragraphs.flatMap(...)
Sentences(text) ==
    LET ps == Paragraphs(text)
    IN Flatten([k \in 1..Len(ps) |-> SentencesOf(ps[k])])

\* current.length + 1 + sentence.length <= maxChunkSize
FitsMut(current, sentence, maxChunkSize) ==
    Len(current) + Len(sentence) <= maxChunkSize
Fits(current, sentence, maxChunkSize) ==
    Len(current) + 1 + Len(sentence) <= maxChunkSize

\* current += " " + sentence
JoinedMut(current, sentence) == current \o sentence
Joined(current, sentence) == current \o <<32>> \o sentence

\* if (current.trim().length), the test of the final push
HasPendingMut(current) == Len(current) >= 0
HasPending(current) == Len(trim(current)) > 0

\* The for loop over the sentences and the final push.
RECURSIVE Pack(_, _, _, _)
Pack(sentences, current, out, maxChunkSize) ==
    IF sentences = <<>>
    THEN IF HasPending(current) THEN Append(out, current) ELSE out
    ELSE LET sentence == Head(sentences)
         IN IF Len(current) = 0
            THEN Pack(Tail(sentences), sentence, out, maxChunkSize)
            ELSE IF Fits(current, sentence, maxChunkSize)
            THEN Pack(Tail(sentences), Joined(current, sentence), out, maxChunkSize)
            ELSE Pack(Tail(sentences), sentence, Append(out, current), maxChunkSize)

splitIntoChunks(text, maxChunkSize) == Pack(Sentences(text), <<>>, <<>>, maxChunkSize)

\* maxChunkSize = 300, the default the worker relies on
DefaultMaxChunkSize == 300

(***************************************************************************)
(* extractPdfTextInReadingOrder (src/utils/index.ts).  A text item is      *)
(* [str, transform]; a page is [fails, items], fails telling whether       *)
(* getTextContent raises on it.  Coordinates are held in tenths of a unit  *)
(* (100.0 is 1000), so that the tolerance of 2.5 is a whole number.        *)
(***************************************************************************)
\* const lineTol = 2.5
lineTol == 25

\* content.items.map(...): x and y from the transform, the text trimmed
Rows(items) ==
    [k \in 1..Len(items) |->
        [x |-> items[k].transform[5], y |-> items[k].transform[6],
         text |-> trim(items[k].str)]]

\* The comparator of rows.sort: b.y - a.y || a.x - b.x is negative
RowBefore(a, b) == a.y > b.y \/ (a.y = b.y /\ a.x < b.x)

\* rows.sort(...), a stable sort
SortRows(rows) ==
    LET n == Len(rows)
        rank(k) == Cardinality({j \in 1..n :
                       \/ RowBefore(rows[j], rows[k])
                       \/ (~RowBefore(rows[k], rows[j]) /\ j < k)})
    IN [p \in 1..n |-> rows[CHOOSE k \in 1..n : rank(k) = p - 1]]

\* line.parts.sort((a, b) => a.x - b.x), a stable sort
SortParts(parts) ==
    LET n == Len(parts)
        rank(k) == Cardinality({j \in 1..n :
                       \/ parts[j].x < parts[k].x
                       \/ (parts[j].x = parts[k].x /\ j < k)})
    IN [p \in 1..n |-> parts[CHOOSE k \in 1..n : rank(k) = p - 1]]

\* Math.abs(candidate.y - row.y) <= lineTol
OnLineMut(candidate, row) == Abs(candidate.y - row.y) < lineTol
OnLine(candidate, row) == Abs(candidate.y - row.y) <= lineTol

\* The for loop over the rows: lines.find gives the first line the row is on, the row is
\* pushed onto it, or a new line is pushed with the y of the row.
RECURSIVE PlaceRows(_, _)
PlaceRows(rows, lines) ==
    IF rows = <<>> THEN lines
    ELSE LET row == Head(rows)
             part == [x |-> row.x, text |-> row.text]
             found == {l \in 1..Len(lines) : OnLine(lines[l], row)}
         IN IF found # {}
            THEN LET l == CHOOSE c \in found : \A d \in found : c <= d
                 IN PlaceRows(Tail(rows), [lines EXCEPT ![l].parts = Append(@, part)])
            ELSE PlaceRows(Tail(rows), Append(lines, [y |-> row.y, parts |-> <<part>>]))

\* The lines of a page, the parts of each sorted by x.
PageLines(items) ==
    LET lines == PlaceRows(SortRows(Rows(items)), <<>>)
    IN [l \in 1..Len(lines) |-> [lines[l] EXCEPT !.parts = SortParts(@)]]

\* lines.map(line => parts sorted, their texts joined by " ").join("\n")
PageText(items) ==
    LET lines == PageLines(items)
    IN JoinWith([l \in 1..Len(lines) |->
                    JoinWith([k \in 1..Len(lines[l].parts) |-> lines[l].parts[k].text],
                             <<32>>)],
                <<10>>)

\* The pagerender callback: the text of the page, or "" from the catch block when
\* getTextContent (or anything after it) raises.
pagerenderMut(pageData) ==
    IF pageData.fails THEN <<117, 110, 100, 101, 102, 105, 110, 101, 100>>
    ELSE PageText(pageData.items)
pagerender(pageData) ==
    IF pageData.fails THEN <<>> ELSE PageText(pageData.items)

\* pdfParse(buffer, { pagerender }) of the pdf-parse library: the pages are rendered in
\* page order and each page's text is added to the text after "\n\n".
RECURSIVE pdfParse(_)
pdfParse(pages) ==
    IF pages = <<>> THEN <<>>
    ELSE pdfParse(SubSeq(pages, 1, Len(pages) - 1))
            \o <<10, 10>> \o pagerender(pages[Len(pages)])

\* const { text } = await pdfParse(...); return text ?? ""
extractPdfTextInReadingOrder(pages) == pdfParse(pages)

(***************************************************************************)
(* retrieveWithFallback (src/app/api/ask-question/route.tsx)               *)
(***************************************************************************)
DEFAULT_TRIES == <<
    [topK |-> 8, threshold |-> NULL],
    [topK |-> 12, threshold |-> "0.3"],
    [topK |-> 20, threshold |-> "0.2"] >>

\* The tier lists a caller passes; passed = FALSE is a call without the argument.
TriesArgs == {
    [passed |-> FALSE, tries |-> <<>>],
    [passed |-> TRUE, tries |-> <<>>],
    [passed |-> TRUE, tries |-> <<[topK |-> 5, threshold |-> "0"]>>],
    [passed |-> TRUE, tries |-> <<[topK |-> 3, threshold |-> "0.5"],
                                  [topK |-> 4, threshold |-> NULL]>>] }

QueryEmbeddings == {<<1, 2>>, <<3>>}

\* What supabase.rpc resolves to: an error, or data that is null, empty or a list of matches
\* (a match is represented by its id).
RpcResponses == {
    [error |-> "timeout", hasData |-> FALSE, data |-> <<>>],
    [error |-> NULL, hasData |-> FALSE, data |-> <<>>],
    [error |-> NULL, hasData |-> TRUE, data |-> <<>>],
    [error |-> NULL, hasData |-> TRUE, data |-> <<7>>],
    [error |-> NULL, hasData |-> TRUE, data |-> <<7, 9>>] }

RpcName(t) ==
    IF t.threshold = NULL THEN "match_document_sections_topk"
    ELSE "match_filtered_document_sections"

RpcArgsMut(queryEmbedding, t) ==
    [query_embedding |-> queryEmbedding, top_k |-> t.topK]
RpcArgs(queryEmbedding, t) ==
    IF t.threshold = NULL
    THEN [query_embedding |-> queryEmbedding, top_k |-> t.topK]
    ELSE [query_embedding |-> queryEmbedding, match_threshold |-> t.threshold,
          match_count |-> t.topK]

\* if (error)
HasErrorMut(resp) == FALSE
HasError(resp) == resp.error # NULL

\* if (data?.length)
HasRowsMut(resp) == resp.hasData /\ Len(resp.data) > 1
HasRows(resp) == resp.hasData /\ Len(resp.data) > 0

\* for (const t of tries): is there a tier at position i
HasTierMut(tries, i) == i < Len(tries)
HasTier(tries, i) == i <= Len(tries)

\* The call enters the function; with no tier to try the loop body never runs and [] is returned.
Retrieve(q, arg) ==
    LET tries == IF arg.passed THEN arg.tries ELSE DEFAULT_TRIES
    IN /\ r_pc = "idle"
       /\ r_query' = q
       /\ r_tries' = tries
       /\ r_i' = 1
       /\ r_calls' = <<>>
       /\ r_error' = <<>>
       /\ IF HasTier(tries, 1)
          THEN r_pc' = "loop" /\ r_result' = <<>>
          ELSE r_pc' = "returned" /\ r_result' = <<>>
       /\ UNCHANGED <<wvars, uvars, pvars, avars>>

\* One iteration of the loop: the rpc call of tier r_i, its response, and what follows it.
RpcCall(resp) ==
    LET t == r_tries[r_i]
        call == [tier |-> r_i, rpc |-> RpcName(t), args |-> RpcArgs(r_query, t), resp |-> resp]
    IN /\ r_pc = "loop"
       /\ r_calls' = Append(r_calls, call)
       /\ IF HasError(resp)
          THEN /\ r_pc' = "thrown"
               /\ r_error' = <<"RPC error", RpcName(t), resp.error>>
               /\ UNCHANGED <<r_result, r_i>>
          ELSE IF HasRows(resp)
          THEN /\ r_pc' = "returned"
               /\ r_result' = resp.data
               /\ UNCHANGED <<r_error, r_i>>
          ELSE /\ r_i' = r_i + 1
               /\ r_pc' = IF HasTier(r_tries, r_i + 1) THEN "loop" ELSE "returned"
               /\ UNCHANGED <<r_error, r_result>>
       /\ UNCHANGED <<r_query, r_tries, wvars, uvars, pvars, avars>>

NextRetrieve ==
    \/ \E q \in QueryEmbeddings, arg \in TriesArgs : Retrieve(q, arg)
    \/ \E resp \in RpcResponses : RpcCall(resp)

(***************************************************************************)
(* The ingest worker.  The repository holds two POST handlers for          *)
(* /api/ingest-worker: the one that follows the ask-question page in       *)
(* src/app/ask-question/page.tsx (lines 116-195, written against           *)
(* src/utils) and the one in src/app/api/ingest-worker/route.ts (lines     *)
(* 1-153, with private copies of the helpers).  handler says which one     *)
(* answers the queue.                                                      *)
(***************************************************************************)
Handlers == {"page.tsx", "route.ts"}

DocumentId == 1

SupportedMime == {"application/pdf",
                  "application/vnd.openxmlformats-officedocument.wordprocessingml.document"}

MimeTypes == {"application/pdf", "text/plain"}

\* Raw texts of stored binaries: nothing, blanks and control characters only, one short
\* sentence, three 150-character sentences (three chunks), and two short sentences
\* followed by a 300-character one (two chunks, the first a merge).
Files == {
    <<>>,
    <<32, 10, 1, 127>>,
    <<72, 105, 46>>,
    Rep(97, 149) \o <<46, 32>> \o Rep(98, 149) \o <<46, 10>> \o Rep(99, 149) \o <<46>>,
    <<65, 97, 46, 32, 66, 98, 46, 32>> \o Rep(99, 299) \o <<46>> }

NullDerefMessage == "Cannot read properties of null (reading 'arrayBuffer')"
\* The message of the failed fetch: that of the error object download resolves to, or
\* that of the exception it raises.
FetchErrorMessage(outcome) ==
    IF outcome = "error" THEN "Object not found" ELSE "fetch failed"
DownloadOutcomes == {"ok", "error", "throws"}
ExtractOutcomes == {"ok", "throws"}
EmbedOutcomes == {"vector", "none", "throws"}
EmbedErrorMessage == "429 Rate limit reached"
\* sectionError of the insert: NULL, or an error object with its message (possibly empty)
InsertOutcomes == {NULL, "duplicate key value violates unique constraint", ""}
UpdateOutcomes == {"ok", "error"}

RunInit == [
    log |-> <<>>,             \* the calls to collaborators made by the run, in order
    inserted |-> <<>>,        \* rows this run persisted
    statusWrites |-> <<>>,    \* status updates this run issued
    sectionsAtStart |-> sections,
    statusAtStart |-> status,
    errorAtStart |-> error_message ]

Logged(r, op, pos, outcome) ==
    [r EXCEPT !.log = Append(@, [op |-> op, pos |-> pos, outcome |-> outcome])]

\* extractTextFromFile: the library's raw text, sanitized; "" for an unsupported mimetype
extractTextFromFile(raw, mimeType) ==
    IF mimeType \in SupportedMime THEN sanitizeText(raw) ELSE <<>>

\* The catch block: the document is put in error with the message of what was thrown, and
\* the response is a 500.  The result of this update is not read by the code; the store
\* applies it.
CatchMut(e, r) ==
    /\ UNCHANGED <<status, error_message>>
    /\ response' = 500
    /\ w_pc' = "done"
    /\ run' = r
Catch(e, r) ==
    /\ status' = "error"
    /\ error_message' = e
    /\ response' = 500
    /\ w_pc' = "done"
    /\ run' = [r EXCEPT !.statusWrites =
                  Append(@, [status |-> "error", error_message |-> e, outcome |-> "ok"])]

\* return NextResponse.json({ message: "Document stored successfully.", ... }, { status: 200 })
Respond200(r) ==
    /\ response' = 200
    /\ w_pc' = "done"
    /\ run' = r

\* After the loop, page.tsx: on to the update of the status.
AfterLoopPage(r) ==
    /\ w_pc' = "markReady"
    /\ run' = r
    /\ UNCHANGED <<status, error_message, response>>

\* After the loop, route.ts: the 200 response, with no update of the status.
AfterLoopRoute(r) ==
    /\ Respond200(r)
    /\ UNCHANGED <<status, error_message>>

\* What follows the for loop once it is over.
AfterLoop(r) == IF handler = "page.tsx" THEN AfterLoopPage(r) ELSE AfterLoopRoute(r)

\* index < chunks.length, then the loop body or the code after the loop
LoopAtMut(i, cs, r) ==
    IF i + 1 < Len(cs)
    THEN /\ w_pc' = "embed"
         /\ run' = r
         /\ UNCHANGED <<status, error_message, response>>
    ELSE AfterLoop(r)
LoopAt(i, cs, r) ==
    IF i < Len(cs)
    THEN /\ w_pc' = "embed"
         /\ run' = r
         /\ UNCHANGED <<status, error_message, response>>
    ELSE AfterLoop(r)

\* extractedText.trim().length is 0, page.tsx: the else branch throws.
EmptyTextPageMut(r) ==
    Catch(IF r.log[Len(r.log)].outcome = "throws" THEN "Invalid PDF structure"
          ELSE "We could not store the vectorized sections.", r)
EmptyTextPage(r) == Catch("We could not store the vectorized sections.", r)

\* extractedText.trim().length is 0, route.ts: the if has no else; the 200 response follows.
EmptyTextRoute(r) ==
    /\ Respond200(r)
    /\ UNCHANGED <<status, error_message>>

\* The branch taken when extractedText.trim().length is 0.
EmptyText(r) == IF handler = "page.tsx" THEN EmptyTextPage(r) ELSE EmptyTextRoute(r)

\* The queue calls the worker: the first delivery of the job, or a redelivery after a 500.
Deliver ==
    /\ w_pc = "idle" \/ (w_pc = "done" /\ response = 500)
    /\ runs < MaxRuns
    /\ runs' = runs + 1
    /\ w_pc' = "download"
    /\ extractedText' = <<>>
    /\ chunks' = <<>>
    /\ index' = 0
    /\ response' = 0
    /\ run' = RunInit
    /\ UNCHANGED <<handler, file, mimetype, status, error_message, sections, rvars, uvars, pvars, avars>>

\* supabase.storage.from("documents").download(storagePath) and file!.arrayBuffer().
\* download resolves to the file, resolves to { data: null, error } (only data is read,
\* and null.arrayBuffer() raises a TypeError), or raises.
Download(outcome) ==
    /\ w_pc = "download"
    /\ LET r == Logged(run, "download", 0, outcome)
       IN CASE outcome = "ok" ->
                 /\ w_pc' = "extract"
                 /\ run' = r
                 /\ UNCHANGED <<status, error_message, response>>
            [] outcome = "error" -> Catch(NullDerefMessage, r)
            [] outcome = "throws" -> Catch(FetchErrorMessage(outcome), r)
    /\ UNCHANGED <<handler, file, mimetype, sections, extractedText, chunks, index, runs, rvars, uvars, pvars, avars>>

\* The inner try/catch around extractTextFromFile, and the test of the text.
ExtractMut(outcome) ==
    /\ w_pc = "extract"
    /\ LET text == extractTextFromFile(file, mimetype)
           r == Logged(run, "extract", 0, outcome)
       IN /\ index' = 0
          /\ IF outcome = "throws"
             THEN /\ extractedText' = <<>>
                  /\ chunks' = <<>>
                  /\ Catch("Invalid PDF structure", r)
             ELSE /\ extractedText' = text
                  /\ IF Len(trim(text)) > 0
                     THEN /\ chunks' = splitIntoChunks(text, DefaultMaxChunkSize)
                          /\ LoopAt(0, chunks', r)
                     ELSE /\ chunks' = <<>>
                          /\ EmptyText(r)
    /\ UNCHANGED <<handler, file, mimetype, sections, runs, rvars, uvars, pvars, avars>>
Extract(outcome) ==
    /\ w_pc = "extract"
    /\ LET text == IF outcome = "throws" THEN <<>> ELSE extractTextFromFile(file, mimetype)
           r == Logged(run, "extract", 0, outcome)
       IN /\ extractedText' = text
          /\ index' = 0
          /\ IF Len(trim(text)) > 0
             THEN /\ chunks' = splitIntoChunks(text, DefaultMaxChunkSize)
                  /\ LoopAt(0, chunks', r)
             ELSE /\ chunks' = <<>>
                  /\ EmptyText(r)
    /\ UNCHANGED <<handler, file, mimetype, sections, runs, rvars, uvars, pvars, avars>>

\* openai.embeddings.create for chunks[index]; without a vector the chunk is skipped.
EmbedMut(outcome) ==
    /\ w_pc = "embed"
    /\ LET r == Logged(run, "embed", index + 1, outcome)
       IN CASE outcome \in {"throws", "none"} ->
                 /\ index' = index + 1
                 /\ LoopAt(index + 1, chunks, r)
            [] outcome = "vector" ->
                 /\ w_pc' = "insert"
                 /\ run' = r
                 /\ UNCHANGED <<index, status, error_message, response>>
    /\ UNCHANGED <<handler, file, mimetype, sections, extractedText, chunks, runs, rvars, uvars, pvars, avars>>
Embed(outcome) ==
    /\ w_pc = "embed"
    /\ LET r == Logged(run, "embed", index + 1, outcome)
       IN CASE outcome = "throws" ->
                 /\ Catch(EmbedErrorMessage, r)
                 /\ UNCHANGED index
            [] outcome = "none" ->
                 /\ index' = index + 1
                 /\ LoopAt(index + 1, chunks, r)
            [] outcome = "vector" ->
                 /\ w_pc' = "insert"
                 /\ run' = r
                 /\ UNCHANGED <<index, status, error_message, response>>
    /\ UNCHANGED <<handler, file, mimetype, sections, extractedText, chunks, runs, rvars, uvars, pvars, avars>>

\* The row handed to document_sections.insert
SectionRowMut(i, cs) ==
    [document_id |-> DocumentId, section_order |-> Len(run.inserted) + 1,
     section_content |-> cs[i + 1], meta |-> "upload"]
SectionRow(i, cs) ==
    [document_id |-> DocumentId, section_order |-> i + 1,
     section_content |-> cs[i + 1], meta |-> "upload"]

\* if (sectionError)
InsertFailedMut(sectionError) == sectionError # NULL /\ sectionError # ""
InsertFailed(sectionError) == sectionError # NULL

\* supabase.from("document_sections").insert([...]) and what follows it
Insert(sectionError) ==
    /\ w_pc = "insert"
    /\ LET row == SectionRow(index, chunks)
           r == Logged(run, "insert", index + 1, sectionError)
       IN IF InsertFailed(sectionError)
          THEN /\ Catch(IF sectionError # "" THEN sectionError
                        ELSE "We could not store the vectorized sections.", r)
               /\ UNCHANGED <<sections, index>>
          ELSE /\ sections' = Append(sections, row)
               /\ index' = index + 1
               /\ LoopAt(index + 1, chunks, [r EXCEPT !.inserted = Append(@, row)])
    /\ UNCHANGED <<handler, file, mimetype, extractedText, chunks, runs, rvars, uvars, pvars, avars>>

\* update({ status: "ready" }).eq("id", documentId) and the test of errorUpdate
MarkReady(outcome) ==
    /\ w_pc = "markReady"
    /\ LET r == [run EXCEPT !.statusWrites =
                    Append(@, [status |-> "ready", error_message |-> NULL, outcome |-> outcome])]
       IN IF outcome = "error"
          THEN Catch("Can't update document status", r)
          ELSE /\ status' = "ready"
               /\ Respond200(r)
               /\ UNCHANGED error_message
    /\ UNCHANGED <<handler, file, mimetype, sections, extractedText, chunks, index, runs, rvars, uvars, pvars, avars>>

NextIngest ==
    \/ Deliver
    \/ \E o \in DownloadOutcomes : Download(o)
    \/ \E o \in ExtractOutcomes : Extract(o)
    \/ \E o \in EmbedOutcomes : Embed(o)
    \/ \E e \in InsertOutcomes : Insert(e)
    \/ \E o \in UpdateOutcomes : MarkReady(o)

(***************************************************************************)
(* The helpers of src/utils/index.ts called on their own: one call, on     *)
(* arguments drawn from a bounded set.                                     *)
(***************************************************************************)
\* Longest text handed to splitIntoChunks, and largest maxChunkSize.
MaxTextLen == 5
MaxChunk == 4

\* The letter a, the full stop, the space and the line feed.
ChunkAlphabet == {97, 46, 32, 10}

\* Every text over the alphabet up to the length bound, "a.\r\nb!\tc?  d" and
\* "a\na\naaaaaaa".
ChunkTexts ==
    UNION {[1..k -> ChunkAlphabet] : k \in 0..MaxTextLen}
        \cup {<<97, 46, 13, 10, 98, 33, 9, 99, 63, 32, 32, 100>>,
              <<97, 10, 97, 10>> \o Rep(97, 7)}

\* splitIntoChunks(text, maxChunkSize)
CallSplitIntoChunks ==
    /\ u_fn = "splitIntoChunks"
    /\ u_pc = "called"
    /\ u_ret' = splitIntoChunks(u_args.text, u_args.maxChunkSize)
    /\ u_pc' = "returned"
    /\ UNCHANGED <<u_fn, u_args, rvars, wvars, pvars, avars>>

\* Longest string handed to sanitizeText.
MaxInputLen == 3

\* a, b, space, tab, line feed, two C0 controls (U+0001, U+001F), DEL, the last C1
\* control (U+009F) and the replacement character.
SanitizeAlphabet == {97, 98, 32, 9, 10, 1, 31, 127, 159, 65533}

SanitizeInputs == UNION {[1..k -> SanitizeAlphabet] : k \in 0..MaxInputLen}

\* sanitizeText(input)
CallSanitizeText ==
    /\ u_fn = "sanitizeText"
    /\ u_pc = "called"
    /\ u_ret' = sanitizeText(u_args.input)
    /\ u_pc' = "returned"
    /\ UNCHANGED <<u_fn, u_args, rvars, wvars, pvars, avars>>

\* Most items on a page, and most pages in a document.
MaxItems == 3
MaxPages == 3

Hello == <<72, 101, 108, 108, 111>>
World == <<87, 111, 114, 108, 100>>
Second == <<83, 101, 99, 111, 110, 100>>

\* A text item at (x, y)
Item(str, x, y) == [str |-> str, transform |-> <<10, 0, 0, 10, x, y>>]

\* (x=50, y=100, World), (x=0, y=100, Hello), (x=0, y=50, Second)
ExampleItems == <<Item(World, 500, 1000), Item(Hello, 0, 1000), Item(Second, 0, 500)>>

\* Items "A" and " B" at x 0 or 50 and y 100, 97.5 or 97.4
PageItems == {Item(str, x, y) : str \in {<<65>>, <<32, 66>>}, x \in {0, 500},
                               y \in {1000, 975, 974}}

ItemLists == UNION {[1..k -> PageItems] : k \in 0..MaxItems} \cup {ExampleItems}

\* The pages pagerender is called on: every list of items, and a page that fails.
Pages == {[fails |-> FALSE, items |-> l] : l \in ItemLists}
            \cup {[fails |-> TRUE, items |-> <<>>]}

\* The pages documents are made of: one that fails, one without items, the example, one
\* of a single item and one of two lines.
DocPages == {
    [fails |-> TRUE, items |-> <<>>],
    [fails |-> FALSE, items |-> <<>>],
    [fails |-> FALSE, items |-> ExampleItems],
    [fails |-> FALSE, items |-> <<Item(<<65>>, 0, 1000)>>],
    [fails |-> FALSE, items |-> <<Item(<<32, 66>>, 500, 974), Item(<<65>>, 0, 1000)>>] }

Documents == UNION {[1..k -> DocPages] : k \in 0..MaxPages}

\* pagerender(pageData)
CallPagerender ==
    /\ u_fn = "pagerender"
    /\ u_pc = "called"
    /\ u_ret' = pagerender(u_args.pageData)
    /\ u_pc' = "returned"
    /\ UNCHANGED <<u_fn, u_args, rvars, wvars, pvars, avars>>

\* extractPdfTextInReadingOrder(buffer), the buffer holding the pages
CallExtractPdfText ==
    /\ u_fn = "extractPdfTextInReadingOrder"
    /\ u_pc = "called"
    /\ u_ret' = extractPdfTextInReadingOrder(u_args.pages)
    /\ u_pc' = "returned"
    /\ UNCHANGED <<u_fn, u_args, rvars, wvars, pvars, avars>>

\* The stored binaries extractTextFromFile is called on: a document, or bytes the PDF
\* library cannot read at all (pdfParse rejects).
Buffers == {[corrupt |-> c, pages |-> d] : c \in BOOLEAN, d \in Documents}

\* extractTextFromFile(buffer, mimeType) as a call that returns a text or raises: the
\* await of extractPdfTextInReadingOrder, and in it the await of pdfParse, are in no
\* try/catch, so a rejection of pdfParse leaves the function as an exception.
extractTextFromBufferMut(buffer, mimeType) ==
    IF mimeType = "application/pdf" /\ ~buffer.corrupt
    THEN [threw |-> FALSE,
          text |-> extractTextFromFile(extractPdfTextInReadingOrder(buffer.pages), mimeType)]
    ELSE [threw |-> FALSE, text |-> <<>>]
extractTextFromBuffer(buffer, mimeType) ==
    IF mimeType = "application/pdf"
    THEN IF buffer.corrupt
         THEN [threw |-> TRUE, text |-> <<>>]
         ELSE [threw |-> FALSE,
               text |-> extractTextFromFile(extractPdfTextInReadingOrder(buffer.pages),
                                            mimeType)]
    ELSE [threw |-> FALSE, text |-> <<>>]

\* extractTextFromFile(buffer, mimeType)
CallExtractTextFromFile ==
    /\ u_fn = "extractTextFromFile"
    /\ u_pc = "called"
    /\ u_ret' = extractTextFromBuffer(u_args.buffer, u_args.mimeType)
    /\ u_pc' = "returned"
    /\ UNCHANGED <<u_fn, u_args, rvars, wvars, pvars, avars>>

NextUtils ==
    \/ CallSplitIntoChunks
    \/ CallSanitizeText
    \/ CallPagerender
    \/ CallExtractPdfText
    \/ CallExtractTextFromFile

(***************************************************************************)
(* The upload routes: POST of /api/send-file (src/unnamed/part_002) and    *)
(* POST of /api/enqueue-ingest (src/unnamed/part_003).  One request, for   *)
(* the one document of the model.                                          *)
(***************************************************************************)
UploadRoutes == {"send-file", "enqueue-ingest"}
CallOutcomes == {"ok", "fails"}

\* The response of the route, which ends the request.
UploadResponds(code) ==
    /\ up_response' = code
    /\ up_pc' = "done"

\* The checks of the request: a 400 for a request that fails one of them; send-file goes
\* on to store the file, enqueue-ingest (the file is stored already) to insert the row.
Submit(valid) ==
    /\ up_pc = "idle"
    /\ IF valid
       THEN /\ up_pc' = (IF up_route = "send-file" THEN "store" ELSE "insert")
            /\ UNCHANGED up_response
       ELSE UploadResponds(400)
    /\ UNCHANGED <<up_route, rvars, wvars, uvars, avars>>

\* send-file: supabase.storage.from("documents").upload(...); uploadError is thrown and
\* the catch block answers 500.
StoreFile(outcome) ==
    /\ up_pc = "store"
    /\ IF outcome = "ok"
       THEN /\ up_pc' = "insert"
            /\ UNCHANGED up_response
       ELSE UploadResponds(500)
    /\ UNCHANGED <<up_route, rvars, wvars, uvars, avars>>

\* supabase.from("documents").insert([{ ..., status: "queued" }]); on an error both
\* routes answer 500 and no row exists.
InsertDocument(outcome) ==
    /\ up_pc = "insert"
    /\ IF outcome = "ok"
       THEN /\ status' = "queued"
            /\ up_pc' = "publish"
            /\ UNCHANGED up_response
       ELSE /\ UploadResponds(500)
            /\ UNCHANGED status
    /\ UNCHANGED <<up_route, rvars, uvars, avars, handler, file, mimetype, error_message,
                   sections, w_pc, extractedText, chunks, index, response, runs, run>>

\* await qstash.publishJSON({ url: .../api/ingest-worker, body }): the job is in the queue
\* and the route answers 202, or publishJSON raises and the catch block answers 500 (the
\* row stays as inserted).
Publish(outcome) ==
    /\ up_pc = "publish"
    /\ IF outcome = "ok"
       THEN /\ w_pc' = "idle"
            /\ UploadResponds(202)
       ELSE /\ UploadResponds(500)
            /\ UNCHANGED w_pc
    /\ UNCHANGED <<up_route, rvars, uvars, avars, handler, file, mimetype, status, error_message,
                   sections, extractedText, chunks, index, response, runs, run>>

NextUpload ==
    \/ \E v \in BOOLEAN : Submit(v)
    \/ \E o \in CallOutcomes : StoreFile(o)
    \/ \E o \in CallOutcomes : InsertDocument(o)
    \/ \E o \in CallOutcomes : Publish(o)

(***************************************************************************)
(* POST of /api/ask-question (src/app/api/ask-question/route.tsx, lines    *)
(* 48-93): the body is parsed, the question embedded, the sections         *)
(* retrieved with retrieveWithFallback and the completion asked for, all   *)
(* inside one try block.  A response is a record [isResponse, status, key, *)
(* text]: key is the property of the JSON body that carries text.          *)
(***************************************************************************)
\* What request.json() yields: a rejection for a body that is not JSON, or the message.
AskBodies == {
    [valid |-> FALSE, message |-> ""],
    [valid |-> TRUE, message |-> ""],
    [valid |-> TRUE, message |-> "What is a vector?"] }

\* openai.embeddings.create: a vector, a response with an empty data array, or an error.
AskEmbedOutcomes == {"vector", "empty", "throws"}
\* openai.chat.completions.create: an answer, a response with no choice, an error, or an
\* error whose message is empty.
AskCompletionOutcomes == {"answer", "nochoices", "throws", "throwsEmpty"}

ParseErrorMessage == "Unexpected end of JSON input"
UndefinedEmbeddingMessage == "Cannot read properties of undefined (reading 'embedding')"
UndefinedChoiceMessage == "Cannot read properties of undefined (reading 'message')"
CompletionErrorMessage == "500 The server had an error while processing your request"
AnswerText == "A vector is a list of numbers."

\* NextResponse.json(body, { status })
JsonResponse(key, text, code) ==
    [isResponse |-> TRUE, status |-> code, key |-> key, text |-> text]

\* error.message || "Failed to store message"
CatchBody(message) == IF message = <<"">> THEN <<"Failed to store message">> ELSE message

\* The catch block: NextResponse.json({ error: ... }, { status: 500 }) is evaluated and its
\* value dropped; the function then ends without a return statement.
AskCatch(failure, message) ==
    /\ a_failure' = failure
    /\ a_dropped' = JsonResponse("error", CatchBody(message), 500)
    /\ a_response' = Undefined
    /\ a_pc' = "done"

\* const { message } = await request.json()
AskParse(body) ==
    /\ a_pc = "parse"
    /\ IF body.valid
       THEN /\ a_message' = body.message
            /\ a_pc' = "embedding"
            /\ UNCHANGED <<a_failure, a_response, a_dropped>>
       ELSE /\ AskCatch("parse", <<ParseErrorMessage>>)
            /\ UNCHANGED a_message
    /\ UNCHANGED <<a_embedding, rvars, wvars, uvars, pvars>>

\* openai.embeddings.create({ input: message }) and embeddingResponse.data[0].embedding
AskEmbed(outcome, q) ==
    /\ a_pc = "embedding"
    /\ CASE outcome = "vector" ->
              /\ a_embedding' = q
              /\ a_pc' = "retrieve"
              /\ UNCHANGED <<a_failure, a_response, a_dropped>>
         [] outcome = "empty" ->
              /\ AskCatch("embedding", <<UndefinedEmbeddingMessage>>)
              /\ UNCHANGED a_embedding
         [] outcome = "throws" ->
              /\ AskCatch("embedding", <<EmbedErrorMessage>>)
              /\ UNCHANGED a_embedding
    /\ UNCHANGED <<a_message, rvars, wvars, uvars, pvars>>

\* retrieveWithFallback(questionEmbedding, supabase): the call, without the third argument
AskRetrieve ==
    /\ a_pc = "retrieve"
    /\ Retrieve(a_embedding, [passed |-> FALSE, tries |-> <<>>])

\* The call has come back: on to the completion with the sections, or to the catch block
\* with the error it threw.
AskAfterRetrieve ==
    /\ a_pc = "retrieve"
    /\ r_pc \in {"returned", "thrown"}
    /\ IF r_pc = "thrown"
       THEN AskCatch("retrieval", r_error)
       ELSE /\ a_pc' = "complete"
            /\ UNCHANGED <<a_failure, a_response, a_dropped>>
    /\ UNCHANGED <<a_message, a_embedding, rvars, wvars, uvars, pvars>>

\* openai.chat.completions.create(...), aiResponse.choices[0].message.content and the
\* response of status 200
AskComplete(outcome) ==
    /\ a_pc = "complete"
    /\ CASE outcome = "answer" ->
              /\ a_response' = JsonResponse("message", <<AnswerText>>, 200)
              /\ a_pc' = "done"
              /\ UNCHANGED <<a_failure, a_dropped>>
         [] outcome = "nochoices" -> AskCatch("completion", <<UndefinedChoiceMessage>>)
         [] outcome = "throws" -> AskCatch("completion", <<CompletionErrorMessage>>)
         [] outcome = "throwsEmpty" -> AskCatch("completion", <<"">>)
    /\ UNCHANGED <<a_message, a_embedding, rvars, wvars, uvars, pvars>>

NextAsk ==
    \/ \E body \in AskBodies : AskParse(body)
    \/ \E o \in AskEmbedOutcomes, q \in QueryEmbeddings : AskEmbed(o, q)
    \/ AskRetrieve
    \/ AskAfterRetrieve
    \/ \E o \in AskCompletionOutcomes : AskComplete(o)

\* No call of retrieveWithFallback yet; a document row in status queued whose job is
\* published, and no run of the worker yet.
Init ==
    /\ r_pc = "idle"
    /\ r_query = <<>>
    /\ r_tries = <<>>
    /\ r_i = 1
    /\ r_calls = <<>>
    /\ r_result = <<>>
    /\ r_error = <<>>
    /\ handler \in Handlers
    /\ file \in Files
    /\ mimetype \in MimeTypes
    /\ status = "queued"
    /\ error_message = NULL
    /\ sections = <<>>
    /\ w_pc = "idle"
    /\ extractedText = <<>>
    /\ chunks = <<>>
    /\ index = 0
    /\ response = 0
    /\ runs = 0
    /\ run = [log |-> <<>>, inserted |-> <<>>, statusWrites |-> <<>>,
              sectionsAtStart |-> <<>>, statusAtStart |-> "queued",
              errorAtStart |-> NULL]
    /\ u_fn = "none"
    /\ u_args = <<>>
    /\ u_ret = <<>>
    /\ u_pc = "none"
    /\ up_route = "send-file"
    /\ up_pc = "done"
    /\ up_response = 202
    /\ a_pc = "done"
    /\ a_message = ""
    /\ a_embedding = <<>>
    /\ a_failure = "none"
    /\ a_response = Undefined
    /\ a_dropped = Undefined

Next == NextRetrieve \/ NextIngest \/ NextUtils \/ NextUpload \/ NextAsk

Spec == Init /\ [][Next]_vars

\* retrieveWithFallback alone, the worker at rest.
InitRetrieve ==
    /\ r_pc = "idle"
    /\ r_query = <<>>
    /\ r_tries = <<>>
    /\ r_i = 1
    /\ r_calls = <<>>
    /\ r_result = <<>>
    /\ r_error = <<>>
    /\ handler = "page.tsx"
    /\ file = <<>>
    /\ mimetype = "application/pdf"
    /\ status = "queued"
    /\ error_message = NULL
    /\ sections = <<>>
    /\ w_pc = "done"
    /\ extractedText = <<>>
    /\ chunks = <<>>
    /\ index = 0
    /\ response = 200
    /\ runs = 0
    /\ run = [log |-> <<>>, inserted |-> <<>>, statusWrites |-> <<>>,
              sectionsAtStart |-> <<>>, statusAtStart |-> "queued",
              errorAtStart |-> NULL]
    /\ u_fn = "none"
    /\ u_args = <<>>
    /\ u_ret = <<>>
    /\ u_pc = "none"
    /\ up_route = "send-file"
    /\ up_pc = "done"
    /\ up_response = 202
    /\ a_pc = "done"
    /\ a_message = ""
    /\ a_embedding = <<>>
    /\ a_failure = "none"
    /\ a_response = Undefined
    /\ a_dropped = Undefined

SpecRetrieve == InitRetrieve /\ [][NextRetrieve]_vars

\* The worker alone, no question being asked.
InitIngest ==
    /\ r_pc = "returned"
    /\ r_query = <<>>
    /\ r_tries = <<>>
    /\ r_i = 1
    /\ r_calls = <<>>
    /\ r_result = <<>>
    /\ r_error = <<>>
    /\ handler \in Handlers
    /\ file \in Files
    /\ mimetype \in MimeTypes
    /\ status = "queued"
    /\ error_message = NULL
    /\ sections = <<>>
    /\ w_pc = "idle"
    /\ extractedText = <<>>
    /\ chunks = <<>>
    /\ index = 0
    /\ response = 0
    /\ runs = 0
    /\ run = [log |-> <<>>, inserted |-> <<>>, statusWrites |-> <<>>,
              sectionsAtStart |-> <<>>, statusAtStart |-> "queued",
              errorAtStart |-> NULL]
    /\ u_fn = "none"
    /\ u_args = <<>>
    /\ u_ret = <<>>
    /\ u_pc = "none"
    /\ up_route = "send-file"
    /\ up_pc = "done"
    /\ up_response = 202
    /\ a_pc = "done"
    /\ a_message = ""
    /\ a_embedding = <<>>
    /\ a_failure = "none"
    /\ a_response = Undefined
    /\ a_dropped = Undefined

SpecIngest == InitIngest /\ [][NextIngest]_vars

\* One call of splitIntoChunks; nothing else going on.
InitSplit ==
    /\ r_pc = "returned"
    /\ r_query = <<>>
    /\ r_tries = <<>>
    /\ r_i = 1
    /\ r_calls = <<>>
    /\ r_result = <<>>
    /\ r_error = <<>>
    /\ handler = "page.tsx"
    /\ file = <<>>
    /\ mimetype = "application/pdf"
    /\ status = "queued"
    /\ error_message = NULL
    /\ sections = <<>>
    /\ w_pc = "done"
    /\ extractedText = <<>>
    /\ chunks = <<>>
    /\ index = 0
    /\ response = 200
    /\ runs = 0
    /\ run = [log |-> <<>>, inserted |-> <<>>, statusWrites |-> <<>>,
              sectionsAtStart |-> <<>>, statusAtStart |-> "queued",
              errorAtStart |-> NULL]
    /\ u_fn = "splitIntoChunks"
    /\ u_args \in [text : ChunkTexts, maxChunkSize : 0..MaxChunk]
    /\ u_ret = <<>>
    /\ u_pc = "called"
    /\ up_route = "send-file"
    /\ up_pc = "done"
    /\ up_response = 202
    /\ a_pc = "done"
    /\ a_message = ""
    /\ a_embedding = <<>>
    /\ a_failure = "none"
    /\ a_response = Undefined
    /\ a_dropped = Undefined

SpecSplit == InitSplit /\ [][CallSplitIntoChunks]_vars

\* One call of sanitizeText; nothing else going on.
InitSanitize ==
    /\ r_pc = "returned"
    /\ r_query = <<>>
    /\ r_tries = <<>>
    /\ r_i = 1
    /\ r_calls = <<>>
    /\ r_result = <<>>
    /\ r_error = <<>>
    /\ handler = "page.tsx"
    /\ file = <<>>
    /\ mimetype = "application/pdf"
    /\ status = "queued"
    /\ error_message = NULL
    /\ sections = <<>>
    /\ w_pc = "done"
    /\ extractedText = <<>>
    /\ chunks = <<>>
    /\ index = 0
    /\ response = 200
    /\ runs = 0
    /\ run = [log |-> <<>>, inserted |-> <<>>, statusWrites |-> <<>>,
              sectionsAtStart |-> <<>>, statusAtStart |-> "queued",
              errorAtStart |-> NULL]
    /\ u_fn = "sanitizeText"
    /\ u_args \in [input : SanitizeInputs]
    /\ u_ret = <<>>
    /\ u_pc = "called"
    /\ up_route = "send-file"
    /\ up_pc = "done"
    /\ up_response = 202
    /\ a_pc = "done"
    /\ a_message = ""
    /\ a_embedding = <<>>
    /\ a_failure = "none"
    /\ a_response = Undefined
    /\ a_dropped = Undefined

SpecSanitize == InitSanitize /\ [][CallSanitizeText]_vars

\* One call of pagerender; nothing else going on.
InitPage ==
    /\ r_pc = "returned"
    /\ r_query = <<>>
    /\ r_tries = <<>>
    /\ r_i = 1
    /\ r_calls = <<>>
    /\ r_result = <<>>
    /\ r_error = <<>>
    /\ handler = "page.tsx"
    /\ file = <<>>
    /\ mimetype = "application/pdf"
    /\ status = "queued"
    /\ error_message = NULL
    /\ sections = <<>>
    /\ w_pc = "done"
    /\ extractedText = <<>>
    /\ chunks = <<>>
    /\ index = 0
    /\ response = 200
    /\ runs = 0
    /\ run = [log |-> <<>>, inserted |-> <<>>, statusWrites |-> <<>>,
              sectionsAtStart |-> <<>>, statusAtStart |-> "queued",
              errorAtStart |-> NULL]
    /\ u_fn = "pagerender"
    /\ u_args \in [pageData : Pages]
    /\ u_ret = <<>>
    /\ u_pc = "called"
    /\ up_route = "send-file"
    /\ up_pc = "done"
    /\ up_response = 202
    /\ a_pc = "done"
    /\ a_message = ""
    /\ a_embedding = <<>>
    /\ a_failure = "none"
    /\ a_response = Undefined
    /\ a_dropped = Undefined

SpecPage == InitPage /\ [][CallPagerender]_vars

\* One call of extractPdfTextInReadingOrder; nothing else going on.
InitPdf ==
    /\ r_pc = "returned"
    /\ r_query = <<>>
    /\ r_tries = <<>>
    /\ r_i = 1
    /\ r_calls = <<>>
    /\ r_result = <<>>
    /\ r_error = <<>>
    /\ handler = "page.tsx"
    /\ file = <<>>
    /\ mimetype = "application/pdf"
    /\ status = "queued"
    /\ error_message = NULL
    /\ sections = <<>>
    /\ w_pc = "done"
    /\ extractedText = <<>>
    /\ chunks = <<>>
    /\ index = 0
    /\ response = 200
    /\ runs = 0
    /\ run = [log |-> <<>>, inserted |-> <<>>, statusWrites |-> <<>>,
              sectionsAtStart |-> <<>>, statusAtStart |-> "queued",
              errorAtStart |-> NULL]
    /\ u_fn = "extractPdfTextInReadingOrder"
    /\ u_args \in [pages : Documents]
    /\ u_ret = <<>>
    /\ u_pc = "called"
    /\ up_route = "send-file"
    /\ up_pc = "done"
    /\ up_response = 202
    /\ a_pc = "done"
    /\ a_message = ""
    /\ a_embedding = <<>>
    /\ a_failure = "none"
    /\ a_response = Undefined
    /\ a_dropped = Undefined

SpecPdf == InitPdf /\ [][CallExtractPdfText]_vars

\* One call of extractTextFromFile; nothing else going on.
InitExtract ==
    /\ r_pc = "returned"
    /\ r_query = <<>>
    /\ r_tries = <<>>
    /\ r_i = 1
    /\ r_calls = <<>>
    /\ r_result = <<>>
    /\ r_error = <<>>
    /\ handler = "page.tsx"
    /\ file = <<>>
    /\ mimetype = "application/pdf"
    /\ status = "queued"
    /\ error_message = NULL
    /\ sections = <<>>
    /\ w_pc = "done"
    /\ extractedText = <<>>
    /\ chunks = <<>>
    /\ index = 0
    /\ response = 200
    /\ runs = 0
    /\ run = [log |-> <<>>, inserted |-> <<>>, statusWrites |-> <<>>,
              sectionsAtStart |-> <<>>, statusAtStart |-> "queued",
              errorAtStart |-> NULL]
    /\ u_fn = "extractTextFromFile"
    /\ u_args \in [buffer : Buffers, mimeType : MimeTypes]
    /\ u_ret = <<>>
    /\ u_pc = "called"
    /\ up_route = "send-file"
    /\ up_pc = "done"
    /\ up_response = 202
    /\ a_pc = "done"
    /\ a_message = ""
    /\ a_embedding = <<>>
    /\ a_failure = "none"
    /\ a_response = Undefined
    /\ a_dropped = Undefined

SpecExtract == InitExtract /\ [][CallExtractTextFromFile]_vars

\* A request reaches one of the upload routes: no row, no job, no run of the worker yet.
InitUpload ==
    /\ r_pc = "returned"
    /\ r_query = <<>>
    /\ r_tries = <<>>
    /\ r_i = 1
    /\ r_calls = <<>>
    /\ r_result = <<>>
    /\ r_error = <<>>
    /\ handler \in Handlers
    /\ file \in Files
    /\ mimetype \in MimeTypes
    /\ status = "none"
    /\ error_message = NULL
    /\ sections = <<>>
    /\ w_pc = "nojob"
    /\ extractedText = <<>>
    /\ chunks = <<>>
    /\ index = 0
    /\ response = 0
    /\ runs = 0
    /\ run = [log |-> <<>>, inserted |-> <<>>, statusWrites |-> <<>>,
              sectionsAtStart |-> <<>>, statusAtStart |-> "queued",
              errorAtStart |-> NULL]
    /\ u_fn = "none"
    /\ u_args = <<>>
    /\ u_ret = <<>>
    /\ u_pc = "none"
    /\ up_route \in UploadRoutes
    /\ up_pc = "idle"
    /\ up_response = 0
    /\ a_pc = "done"
    /\ a_message = ""
    /\ a_embedding = <<>>
    /\ a_failure = "none"
    /\ a_response = Undefined
    /\ a_dropped = Undefined

\* A step of the worker: NextIngest, the two outcomes of the extraction written out.
WorkerStep ==
    \/ Deliver
    \/ \E o \in DownloadOutcomes : Download(o)
    \/ Extract("throws") \/ Extract("ok")
    \/ \E o \in EmbedOutcomes : Embed(o)
    \/ \E e \in InsertOutcomes : Insert(e)
    \/ \E o \in UpdateOutcomes : MarkReady(o)

\* The route and the worker each run to their response, the queue delivers a published
\* job, and every awaited call comes back.
SpecUpload ==
    /\ InitUpload
    /\ [][NextUpload \/ NextIngest]_vars
    /\ WF_vars(NextUpload)
    /\ WF_vars(WorkerStep)

\* A request has reached the POST of /api/ask-question; no document is being worked on.
InitAsk ==
    /\ r_pc = "idle"
    /\ r_query = <<>>
    /\ r_tries = <<>>
    /\ r_i = 1
    /\ r_calls = <<>>
    /\ r_result = <<>>
    /\ r_error = <<>>
    /\ handler = "page.tsx"
    /\ file = <<>>
    /\ mimetype = "text/plain"
    /\ status = "ready"
    /\ error_message = NULL
    /\ sections = <<>>
    /\ w_pc = "done"
    /\ extractedText = <<>>
    /\ chunks = <<>>
    /\ index = 0
    /\ response = 200
    /\ runs = 0
    /\ run = [log |-> <<>>, inserted |-> <<>>, statusWrites |-> <<>>,
              sectionsAtStart |-> <<>>, statusAtStart |-> "queued",
              errorAtStart |-> NULL]
    /\ u_fn = "none"
    /\ u_args = <<>>
    /\ u_ret = <<>>
    /\ u_pc = "none"
    /\ up_route = "send-file"
    /\ up_pc = "done"
    /\ up_response = 202
    /\ a_pc = "parse"
    /\ a_message = ""
    /\ a_embedding = <<>>
    /\ a_failure = "none"
    /\ a_response = Undefined
    /\ a_dropped = Undefined

SpecAsk == InitAsk /\ [][NextAsk \/ (\E resp \in RpcResponses : RpcCall(resp))]_vars

(***************************************************************************)
(* Properties of retrieveWithFallback, checked under SpecRetrieve          *)
(***************************************************************************)
\* A response that carries at least one match / that is an error / that found nothing.
RespHasMatches(resp) == resp.error = NULL /\ resp.hasData /\ Len(resp.data) >= 1
RespIsError(resp) == resp.error # NULL
RespIsEmpty(resp) == resp.error = NULL /\ (~resp.hasData \/ Len(resp.data) = 0)

LastCall == r_calls[Len(r_calls)]

\* C1: the tiers are tried strictly in the given order, one call each; the first call that
\* returns a non-empty result set ends the search: exactly that set is returned and no
\* later tier is called.  With the default tiers, a match from tier 1 (topK 8, no
\* threshold) means the search backend was called exactly once.
C1_FirstNonEmptyTierWins ==
    /\ \A k \in 1..Len(r_calls) :
          /\ r_calls[k].tier = k
          /\ r_calls[k].rpc = RpcName(r_tries[k])
          /\ k < Len(r_calls) => ~RespHasMatches(r_calls[k].resp)
    /\ (Len(r_calls) > 0 /\ RespHasMatches(LastCall.resp)) =>
          /\ r_pc = "returned"
          /\ r_result = LastCall.resp.data
    /\ (r_tries = DEFAULT_TRIES /\ Len(r_calls) > 0 /\ RespHasMatches(r_calls[1].resp)) =>
          /\ Len(r_calls) = 1
          /\ r_calls[1].args = [query_embedding |-> r_query, top_k |-> 8]

\* Tier 2 of the default tiers found matches: they were returned and tier 3 was not called.
C1_Witness ==
    /\ r_pc = "returned"
    /\ r_tries = DEFAULT_TRIES
    /\ Len(r_calls) = 2
    /\ r_result = <<7, 9>>

\* C2: an error from the search call of any tier is raised to the caller at once: that call
\* is the last one made (no retry, no later tier) and the function does not return a
\* value, so a failed search never looks like an empty result.
C2_SearchErrorIsRaised ==
    /\ \A k \in 1..Len(r_calls) :
          RespIsError(r_calls[k].resp) =>
             /\ k = Len(r_calls)
             /\ r_pc = "thrown"
             /\ r_error = <<"RPC error", r_calls[k].rpc, r_calls[k].resp.error>>
    /\ r_pc = "returned" => \A k \in 1..Len(r_calls) : ~RespIsError(r_calls[k].resp)

\* The second tier's call failed after an empty first tier.
C2_Witness ==
    /\ r_pc = "thrown"
    /\ Len(r_calls) = 2
    /\ RespIsEmpty(r_calls[1].resp)

\* C3: when every tier's call succeeds with no match (empty or absent data), the function
\* returns the empty sequence, raises nothing, and has called each tier exactly once, in
\* order.
C3_AllEmptyReturnsEmpty ==
    (/\ r_pc \in {"returned", "thrown"}
     /\ \A k \in 1..Len(r_calls) : RespIsEmpty(r_calls[k].resp))
    => /\ r_pc = "returned"
       /\ r_result = <<>>
       /\ r_error = <<>>
       /\ Len(r_calls) = Len(r_tries)
       /\ \A k \in 1..Len(r_calls) : r_calls[k].tier = k

\* The three default tiers were all called and all found nothing, one of them with absent data.
C3_Witness ==
    /\ r_pc = "returned"
    /\ r_tries = DEFAULT_TRIES
    /\ Len(r_calls) = 3
    /\ \A k \in 1..3 : RespIsEmpty(r_calls[k].resp)
    /\ \E k \in 1..3 : ~r_calls[k].resp.hasData
    /\ r_result = <<>>

(***************************************************************************)
(* Properties of the ingest worker, checked under SpecIngest               *)
(***************************************************************************)
\* The current run has returned its response.
RunReturned == w_pc = "done" /\ runs > 0

LogSet == {run.log[n] : n \in 1..Len(run.log)}
EmbedsAt(p) == {n \in 1..Len(run.log) : run.log[n].op = "embed" /\ run.log[n].pos = p}
InsertedOrders == {run.inserted[n].section_order : n \in 1..Len(run.inserted)}
Extracted == \E e \in LogSet : e.op = "extract"
TextIsEmpty == Len(trim(extractedText)) = 0

\* C4: a run of the worker on a queued document that has returned has left the document
\* ready or error, never queued.
C4_RunLeavesReadyOrError ==
    (RunReturned /\ run.statusAtStart = "queued") => status \in {"ready", "error"}

\* C5: when the extracted text is empty or blank after normalization, the run ends with the
\* document in error, requests no embedding and persists no section.
C5_EmptyTextEndsInError ==
    (RunReturned /\ Extracted /\ TextIsEmpty) =>
        /\ status = "error"
        /\ \A e \in LogSet : e.op \notin {"embed", "insert"}
        /\ run.inserted = <<>>
        /\ sections = run.sectionsAtStart

\* C6: when the insert of the section of chunk k fails, the run stops there with the
\* document in error: nothing is requested after the failed insert, no section of a chunk
\* at or after k is persisted by the run, and what was persisted before (by this run for
\* the chunks before k, and by earlier runs) stays persisted.
C6_InsertFailureIsFatalNoRollback ==
    \A n \in 1..Len(run.log) :
        (run.log[n].op = "insert" /\ run.log[n].outcome # NULL) =>
            LET k == run.log[n].pos
            IN /\ n = Len(run.log)
               /\ RunReturned
               /\ status = "error"
               /\ response = 500
               /\ sections = run.sectionsAtStart \o run.inserted
               /\ \A j \in 1..(k - 1) :
                     (\E m \in EmbedsAt(j) : run.log[m].outcome = "vector") =>
                        \E i \in 1..Len(sections) :
                           /\ i > Len(run.sectionsAtStart)
                           /\ sections[i].section_order = j
                           /\ sections[i].section_content = chunks[j]
               /\ \A o \in InsertedOrders : o < k
               /\ \A e \in LogSet : e.pos <= k

\* The insert of chunk 2 of 3 failed after chunk 1 was persisted.
C6_Witness ==
    /\ RunReturned
    /\ Len(chunks) = 3
    /\ \E n \in 1..Len(run.log) :
          run.log[n].op = "insert" /\ run.log[n].outcome # NULL /\ run.log[n].pos = 2
    /\ Len(run.inserted) = 1
    /\ status = "error"

\* C7: a document in status ready has at least one persisted section.
C7_ReadyHasASection == status = "ready" => Len(sections) >= 1

C9_SkipKeepsPositionsAndContent ==
    /\ \A n \in 1..Len(run.log) :
          (run.log[n].op = "embed" /\ run.log[n].outcome = "none") =>
             LET p == run.log[n].pos
             IN /\ p \notin InsertedOrders
                /\ \A e \in LogSet : ~(e.op = "insert" /\ e.pos = p)
                /\ n < Len(run.log) =>
                      (run.log[n + 1].op = "embed" /\ run.log[n + 1].pos = p + 1)
                /\ n = Len(run.log) =>
                      IF p < Len(chunks) THEN w_pc = "embed" /\ index = p
                      ELSE w_pc \in {"markReady", "done"}
    /\ (\A e \in LogSet : e.outcome \in {"ok", "vector", "none", NULL}) =>
          \A w \in 1..Len(run.statusWrites) :
             run.statusWrites[w].status = "error" =>
                \/ TextIsEmpty
                \/ \E v \in 1..(w - 1) : run.statusWrites[v].outcome = "error"
    /\ \A i \in 1..Len(run.inserted) :
          /\ run.inserted[i].section_order \in 1..Len(chunks)
          /\ run.inserted[i].section_content = chunks[run.inserted[i].section_order]
          /\ \E m \in EmbedsAt(run.inserted[i].section_order) : run.log[m].outcome = "vector"
    /\ sections = run.sectionsAtStart \o run.inserted

\* Chunk 1 of 3 was skipped, chunks 2 and 3 were persisted, and the run returned without
\* putting the document in error.
C9_Witness ==
    /\ RunReturned
    /\ Len(chunks) = 3
    /\ InsertedOrders = {2, 3}
    /\ status # "error"
    /\ response = 200

\* C10: when the fetch of the binary fails, the run marks the document error with the
\* message of the fetch error, answers with a failure, and does nothing else: no second
\* download, no extraction, no embedding, no insert.
C10_FetchFailureStoresFetchMessage ==
    \A n \in 1..Len(run.log) :
        (run.log[n].op = "download" /\ run.log[n].outcome # "ok") =>
            /\ RunReturned
            /\ status = "error"
            /\ error_message = FetchErrorMessage(run.log[n].outcome)
            /\ response = 500
            /\ Len(run.log) = 1
            /\ run.inserted = <<>>
            /\ sections = run.sectionsAtStart

\* What a run in which the extractor returned the empty string ends with: status, error
\* message and response (page.tsx throws into the catch block, route.ts answers 200 and
\* leaves the row as it was).
EmptyExtractionOutcome ==
    IF handler = "page.tsx"
    THEN <<"error", "We could not store the vectorized sections.", 500>>
    ELSE <<run.statusAtStart, run.errorAtStart, 200>>

ExtractOutcome == (CHOOSE e \in LogSet : e.op = "extract").outcome

\* C11: an exception of the extractor is caught, and the run it happens in ends exactly as
\* a run in which the extractor returned the empty string: same final status, same error
\* message, same response, no embedding asked for and no section persisted.
C11_ExtractorExceptionIsEmptyText ==
    (RunReturned /\ Extracted /\ (ExtractOutcome = "throws" \/ TextIsEmpty)) =>
        /\ extractedText = <<>>
        /\ <<status, error_message, response>> = EmptyExtractionOutcome
        /\ \A e \in LogSet : e.op \notin {"embed", "insert"}
        /\ run.inserted = <<>>
        /\ sections = run.sectionsAtStart
        /\ Len(run.statusWrites) = (IF handler = "page.tsx" THEN 1 ELSE 0)

\* The extractor raised on a file that holds text, and the run has returned.
C11_Witness ==
    /\ RunReturned
    /\ Extracted
    /\ ExtractOutcome = "throws"
    /\ Len(sanitizeText(file)) > 0
    /\ mimetype \in SupportedMime

\* C12: whatever runs of the worker a document has been through (a failed run that left
\* sections behind, then a redelivery of the job), no two of its persisted sections share
\* a section_order.
C12_RetryLeavesNoDuplicateOrder ==
    \A i, j \in 1..Len(sections) :
        (i # j /\ sections[i].document_id = sections[j].document_id) =>
            sections[i].section_order # sections[j].section_order

\* Every chunk of the run was either persisted or skipped for want of a vector.
AllChunksPersistedOrSkipped ==
    \A p \in 1..Len(chunks) :
        \/ p \in InsertedOrders
        \/ \E m \in EmbedsAt(p) : run.log[m].outcome = "none"

\* C13: a run that got a non-empty text and took every chunk through the loop with no
\* failed insert (each chunk persisted or skipped) issues the write of status ready, and a
\* write of ready is issued only once every chunk has been persisted or skipped.
C13_ReadyAfterAllChunks ==
    /\ (/\ RunReturned
        /\ Extracted
        /\ ~TextIsEmpty
        /\ \A e \in LogSet : e.op = "insert" => e.outcome = NULL
        /\ AllChunksPersistedOrSkipped)
       => \E w \in 1..Len(run.statusWrites) : run.statusWrites[w].status = "ready"
    /\ \A w \in 1..Len(run.statusWrites) :
          run.statusWrites[w].status = "ready" =>
             /\ AllChunksPersistedOrSkipped
             /\ index = Len(chunks)
             /\ \A v \in 1..(w - 1) : run.statusWrites[v].status # "ready"

(***************************************************************************)
(* Properties of splitIntoChunks, checked under SpecSplit                  *)
(***************************************************************************)
SplitReturned == u_fn = "splitIntoChunks" /\ u_pc = "returned"

\* The ways of cutting a sequence into consecutive non-empty groups, in order.
Groupings(seq) ==
    IF seq = <<>> THEN {<<>>}
    ELSE {LET ends == SetToSortedSeq(cuts \cup {Len(seq)})
          IN [g \in 1..Len(ends) |->
                 SubSeq(seq, IF g = 1 THEN 1 ELSE ends[g - 1] + 1, ends[g])]
          : cuts \in SUBSET (1..(Len(seq) - 1))}

\* The chunks are, one for one and in order, the groups joined by single spaces.
ChunksAre(chunkSeq, groups) ==
    /\ Len(chunkSeq) = Len(groups)
    /\ \A g \in 1..Len(groups) : chunkSeq[g] = JoinWith(groups[g], <<32>>)

\* C14: every chunk is at most maxChunkSize long, except a chunk made of one sentence that
\* is itself longer than maxChunkSize; a sentence longer than maxChunkSize is a chunk of
\* its own, whole.
C14_ChunkLengthBound ==
    SplitReturned =>
        LET sentences == Sentences(u_args.text)
            max == u_args.maxChunkSize
        IN \E groups \in Groupings(sentences) :
              /\ ChunksAre(u_ret, groups)
              /\ \A g \in 1..Len(groups) :
                    \/ Len(u_ret[g]) <= max
                    \/ (Len(groups[g]) = 1 /\ Len(groups[g][1]) > max)
              /\ \A g \in 1..Len(groups) :
                    (\E k \in 1..Len(groups[g]) : Len(groups[g][k]) > max) =>
                        (Len(groups[g]) = 1 /\ u_ret[g] = groups[g][1])

\* A sentence longer than maxChunkSize is a chunk of its own, next to a chunk that merges
\* two sentences.
C14_Witness ==
    /\ SplitReturned
    /\ \E groups \in Groupings(Sentences(u_args.text)) :
          /\ ChunksAre(u_ret, groups)
          /\ \E g \in 1..Len(groups) : Len(groups[g]) >= 2
          /\ \E g \in 1..Len(groups) : Len(u_ret[g]) > u_args.maxChunkSize

\* The sentences got by splitting each chunk again, chunk after chunk.
Resplit(chunkSeq) == Flatten([g \in 1..Len(chunkSeq) |-> SentencesOf(chunkSeq[g])])

EndsSentence(sentence) == sentence[Len(sentence)] \in {46, 33, 63}

\* C15 as stated: for a non-empty text and a positive maxChunkSize, splitting each chunk
\* back into its sentences and concatenating over the chunks gives exactly the sentence
\* sequence of the input.
C15_ResplitGivesTheSentences ==
    (SplitReturned /\ u_args.text # <<>> /\ u_args.maxChunkSize > 0) =>
        Resplit(u_ret) = Sentences(u_args.text)

\* C15 amended: the chunks are, in order, the single-space joins of consecutive groups of
\* the sentence sequence of the input, the groups covering every sentence once (nothing
\* dropped, duplicated, reordered or altered); splitting a chunk again gives back its
\* sentences when each of them but the last ends in . ! or ?
C15_ChunksAreJoinedSentenceGroups ==
    SplitReturned =>
        \E groups \in Groupings(Sentences(u_args.text)) :
            /\ ChunksAre(u_ret, groups)
            /\ Flatten(groups) = Sentences(u_args.text)
            /\ \A g \in 1..Len(groups) :
                  (\A k \in 1..(Len(groups[g]) - 1) : EndsSentence(groups[g][k])) =>
                      SentencesOf(u_ret[g]) = groups[g]

\* Two sentences were merged into one chunk, the first ending its paragraph without a
\* full stop: splitting the chunk again gives one sentence, not two.
C15_Witness ==
    /\ SplitReturned
    /\ u_args.maxChunkSize > 0
    /\ Len(Sentences(u_args.text)) = 2
    /\ Len(u_ret) = 1
    /\ Len(Resplit(u_ret)) = 1

Blank(str) == \A k \in 1..Len(str) : IsWs(str[k])

\* C16: for the empty string and for a text of white space and newlines only,
\* splitIntoChunks returns no chunk; for any text, no chunk it returns is empty or made of
\* white space only.
C16_NoBlankChunk ==
    SplitReturned =>
        /\ Blank(u_args.text) => u_ret = <<>>
        /\ \A g \in 1..Len(u_ret) : ~Blank(u_ret[g])

\* A text of spaces and line feeds was split into no chunk.
C16_Witness ==
    /\ SplitReturned
    /\ Len(u_args.text) >= 3
    /\ Blank(u_args.text)
    /\ \E k \in 1..Len(u_args.text) : u_args.text[k] = 10
    /\ \E k \in 1..Len(u_args.text) : u_args.text[k] = 32
    /\ u_ret = <<>>

(***************************************************************************)
(* Properties of sanitizeText, checked under SpecSanitize                  *)
(***************************************************************************)
SanitizeReturned == u_fn = "sanitizeText" /\ u_pc = "returned"

\* C0 controls other than tab, line feed and carriage return, and U+007F..U+009F.
ControlChars == ((0..31) \ {9, 10, 13}) \cup (127..159)

\* C17: what sanitizeText returns holds no C0 control character other than tab, line feed
\* and carriage return, no character of U+007F..U+009F and no U+FFFD; it returns for every
\* input, and returns the empty string for the empty string.
C17_OutputHasNoControlCharacter ==
    SanitizeReturned =>
        /\ \A k \in 1..Len(u_ret) : u_ret[k] \notin ControlChars \cup {65533}
        /\ u_args.input = <<>> => u_ret = <<>>

\* The input held a C0 control, a C1 control or DEL, and a replacement character.
C17_Witness ==
    /\ SanitizeReturned
    /\ \E k \in 1..Len(u_args.input) : u_args.input[k] \in {1, 31}
    /\ \E k \in 1..Len(u_args.input) : u_args.input[k] \in {127, 159}
    /\ \E k \in 1..Len(u_args.input) : u_args.input[k] = 65533

\* The input with each U+FFFD turned into a space.
Unreplaced(str) == [k \in 1..Len(str) |-> IF str[k] = 65533 THEN 32 ELSE str[k]]

\* str with the white space at both ends taken off is res.
TrimsTo(str, res) ==
    \E lo \in 1..(Len(str) + 1), hi \in 0..Len(str) :
        /\ res = SubSeq(str, lo, hi)
        /\ \A k \in 1..Len(str) : (k < lo \/ k > hi) => IsWs(str[k])
        /\ lo <= hi => (~IsWs(str[lo]) /\ ~IsWs(str[hi]))

\* C18 as stated: the result is the input with the control characters deleted, each U+FFFD
\* replaced by a space, and the white space at both ends trimmed.
C18_ControlCharactersAreDeleted ==
    SanitizeReturned =>
        TrimsTo(Unreplaced(SelectSeq(u_args.input, LAMBDA c : c \notin ControlChars)), u_ret)

\* C18 amended: the result is the input with each control character and each U+FFFD
\* replaced by one space, and the white space at both ends trimmed; nothing is deleted
\* between the first and the last character kept.
C18_ControlCharactersBecomeSpaces ==
    SanitizeReturned =>
        TrimsTo([k \in 1..Len(u_args.input) |->
                    IF u_args.input[k] \in ControlChars \cup {65533} THEN 32
                    ELSE u_args.input[k]], u_ret)

\* a, U+0001, b was normalized to a, space, b.
C18_Witness ==
    /\ SanitizeReturned
    /\ u_args.input = <<97, 1, 98>>
    /\ u_ret = <<97, 32, 98>>

(***************************************************************************)
(* Properties of the PDF extraction, checked under SpecPage and SpecPdf    *)
(***************************************************************************)
PageReturned == u_fn = "pagerender" /\ u_pc = "returned" /\ ~u_args.pageData.fails

\* How many entries of seq satisfy being equal to v.
Count(seq, v) == Cardinality({k \in 1..Len(seq) : seq[k] = v})

\* C19: the lines of a page run top to bottom, each opened by an item whose y no earlier
\* line is within 2.5 of; a line holds exactly the items whose y is at most 2.5 below the
\* y of the item that opened it, every item is in exactly one line, the items of a line
\* are in ascending x, and the text is the lines joined by a newline, the items of a line
\* joined by a space.  The three items of the example give "Hello World", newline, "Second".
C19_LinesInReadingOrder ==
    PageReturned =>
        LET rows == Rows(u_args.pageData.items)
            lines == PageLines(u_args.pageData.items)
            onLine(l) == SelectSeq(rows, LAMBDA r : lines[l].y - r.y \in 0..25)
        IN /\ \A l \in 1..Len(lines) : \E k \in 1..Len(rows) : rows[k].y = lines[l].y
           /\ \A l \in 1..(Len(lines) - 1) : lines[l].y - lines[l + 1].y > 25
           /\ \A l \in 1..Len(lines) :
                 /\ Len(lines[l].parts) = Len(onLine(l))
                 /\ \A k \in 1..Len(onLine(l)) :
                       LET v == [x |-> onLine(l)[k].x, text |-> onLine(l)[k].text]
                       IN Count(lines[l].parts, v) =
                             Count([j \in 1..Len(onLine(l)) |->
                                      [x |-> onLine(l)[j].x, text |-> onLine(l)[j].text]], v)
                 /\ \A k \in 1..(Len(lines[l].parts) - 1) :
                       lines[l].parts[k].x <= lines[l].parts[k + 1].x
           /\ \A k \in 1..Len(rows) :
                 Cardinality({l \in 1..Len(lines) : lines[l].y - rows[k].y \in 0..25}) = 1
           /\ u_ret = JoinWith([l \in 1..Len(lines) |->
                                  JoinWith([k \in 1..Len(lines[l].parts) |->
                                               lines[l].parts[k].text], <<32>>)], <<10>>)
           /\ u_args.pageData.items = ExampleItems =>
                 u_ret = Hello \o <<32>> \o World \o <<10>> \o Second

\* The example page was rendered.
C19_Witness ==
    /\ PageReturned
    /\ u_args.pageData.items = ExampleItems
    /\ u_ret = Hello \o <<32>> \o World \o <<10>> \o Second

PdfReturned == u_fn = "extractPdfTextInReadingOrder" /\ u_pc = "returned"

\* The document with each failing page replaced by a page without items.
WithoutFailures(pages) ==
    [p \in 1..Len(pages) |-> IF pages[p].fails THEN [fails |-> FALSE, items |-> <<>>]
                             ELSE pages[p]]

\* C20: a page whose extraction fails contributes the empty string and nothing else
\* changes: the text of the document is that of the same document with the failing pages
\* empty, and it is the texts of its pages, each as extracted on its own, in page order.
C20_FailingPageIsEmpty ==
    PdfReturned =>
        LET pages == u_args.pages
        IN /\ u_ret = extractPdfTextInReadingOrder(WithoutFailures(pages))
           /\ u_ret = Flatten([p \in 1..Len(pages) |->
                                  <<10, 10>> \o (IF pages[p].fails THEN <<>>
                                                 ELSE PageText(pages[p].items))])

\* The second of three pages failed, the first and the third hold text.
C20_Witness ==
    /\ PdfReturned
    /\ Len(u_args.pages) = 3
    /\ u_args.pages[2].fails
    /\ u_args.pages[1].items = ExampleItems
    /\ Len(u_args.pages[3].items) = 2
    /\ u_ret = <<10, 10>> \o Hello \o <<32>> \o World \o <<10>> \o Second
                  \o <<10, 10, 10, 10, 65, 10, 66>>

(***************************************************************************)
(* Properties of extractTextFromFile, checked under SpecExtract            *)
(***************************************************************************)
ExtractReturned == u_fn = "extractTextFromFile" /\ u_pc = "returned"

PdfLibraryFailed == u_args.mimeType = "application/pdf" /\ u_args.buffer.corrupt

\* C21 as stated: when the PDF library fails on the whole document, extractTextFromFile
\* returns the empty string and raises nothing.
C21_LibraryFailureReturnsEmpty ==
    (ExtractReturned /\ PdfLibraryFailed) => (~u_ret.threw /\ u_ret.text = <<>>)

\* C21 amended: when the PDF library fails on the whole document, extractTextFromFile
\* returns no text: the failure leaves it as an exception, for its caller to handle; on a
\* document the library reads it raises nothing and returns the sanitized text.
C21_LibraryFailurePropagates ==
    (ExtractReturned /\ u_args.mimeType = "application/pdf") =>
        IF u_args.buffer.corrupt
        THEN u_ret.threw /\ u_ret.text = <<>>
        ELSE /\ ~u_ret.threw
             /\ u_ret.text = sanitizeText(extractPdfTextInReadingOrder(u_args.buffer.pages))

\* extractTextFromFile was called on bytes the PDF library rejects, three pages long.
C21_Witness ==
    /\ ExtractReturned
    /\ PdfLibraryFailed
    /\ Len(u_args.buffer.pages) = 3
    /\ u_ret.threw

(***************************************************************************)
(* More properties of the ingest worker, checked under SpecIngest          *)
(***************************************************************************)
\* The run was failed for want of text: the text is empty and the run wrote status error.
FailedForEmptyText ==
    /\ RunReturned
    /\ Extracted
    /\ TextIsEmpty
    /\ \E w \in 1..Len(run.statusWrites) : run.statusWrites[w].status = "error"

\* C22 as stated: a run failed because the extracted text is empty stores the message
\* "no extractable text".
C22_EmptyTextMessageIsNoExtractableText ==
    FailedForEmptyText => error_message = "no extractable text"

\* C22 amended: a run failed because the extracted text is empty stores the fixed message
\* "We could not store the vectorized sections.", whatever the document and whatever made
\* the text empty (an exception of the extractor, a file without text, a mimetype the
\* extractor does not handle), in the one status write of the run.
C22_EmptyTextMessageIsFixed ==
    FailedForEmptyText =>
        /\ status = "error"
        /\ error_message = "We could not store the vectorized sections."
        /\ Len(run.statusWrites) = 1
        /\ run.statusWrites[1].error_message = "We could not store the vectorized sections."

\* A run was failed for want of text after the extractor raised on a PDF that holds text.
C22_Witness ==
    /\ FailedForEmptyText
    /\ ExtractOutcome = "throws"
    /\ mimetype = "application/pdf"
    /\ Len(sanitizeText(file)) > 0
    /\ error_message = "We could not store the vectorized sections."

(***************************************************************************)
(* Properties of the upload routes with the worker, checked under          *)
(* SpecUpload                                                              *)
(***************************************************************************)
Accepted == up_response = 202

\* C23: a job is in the queue only for a document whose row exists, the row is created in
\* status queued before the job is published, and every accepted document eventually is
\* ready or error.
C23_AcceptedDocumentLeavesQueued ==
    /\ [](w_pc # "nojob" => status # "none")
    /\ []((status # "none" /\ w_pc = "nojob") => status = "queued")
    /\ (Accepted ~> status \in {"ready", "error"})

(***************************************************************************)
(* More properties of retrieveWithFallback, checked under SpecRetrieve     *)
(***************************************************************************)
\* (topK 8, no threshold), (topK 12, threshold 0.3), (topK 20, threshold 0.2)
TheDefaultTiers ==
    <<[topK |-> 8, threshold |-> NULL], [topK |-> 12, threshold |-> "0.3"],
      [topK |-> 20, threshold |-> "0.2"]>>

\* C24: the k-th search call is the one call for the k-th tier: the top-K function with
\* the tier's topK when the tier has no threshold, the filtered function with the tier's
\* threshold and topK otherwise, each time with the query embedding as passed; the tiers
\* are those passed, or the three default ones when none is passed.
C24_CallFollowsItsTier ==
    /\ \A k \in 1..Len(r_calls) :
          LET c == r_calls[k]
              t == r_tries[k]
          IN /\ c.tier = k
             /\ k <= Len(r_tries)
             /\ IF t.threshold = NULL
                THEN /\ c.rpc = "match_document_sections_topk"
                     /\ c.args = [query_embedding |-> r_query, top_k |-> t.topK]
                ELSE /\ c.rpc = "match_filtered_document_sections"
                     /\ c.args = [query_embedding |-> r_query,
                                  match_threshold |-> t.threshold, match_count |-> t.topK]
    /\ r_pc # "idle" =>
          \/ \E a \in TriesArgs : a.passed /\ r_tries = a.tries
          \/ r_tries = TheDefaultTiers

\* A call without tiers went through the three default tiers.
C24_Witness ==
    /\ r_pc = "returned"
    /\ r_tries = TheDefaultTiers
    /\ Len(r_calls) = 3
    /\ r_calls[2].args = [query_embedding |-> r_query, match_threshold |-> "0.3",
                          match_count |-> 12]
    /\ r_calls[3].rpc = "match_filtered_document_sections"

(***************************************************************************)
(* Properties of the chunk loop, checked under SpecIngest                  *)
(***************************************************************************)
\* C25: the chunks of a run are processed one after the other in chunk order: the
\* embedding of chunk 1 is asked for right after the extraction, the embedding of chunk
\* p > 1 right after chunk p-1 was skipped or its section inserted, an insert comes right
\* after the vector of its own chunk, and the sections of the run are inserted in strictly
\* increasing section_order.
C25_ChunksAreSequential ==
    /\ \A n \in 1..Len(run.log) :
          LET e == run.log[n]
          IN /\ e.op = "embed" =>
                   /\ n > 1
                   /\ e.pos \in 1..Len(chunks)
                   /\ LET b == run.log[n - 1]
                      IN IF e.pos = 1 THEN b.op = "extract"
                         ELSE \/ (b.op = "embed" /\ b.pos = e.pos - 1 /\ b.outcome = "none")
                              \/ (b.op = "insert" /\ b.pos = e.pos - 1 /\ b.outcome = NULL)
             /\ e.op = "insert" =>
                   /\ n > 1
                   /\ run.log[n - 1].op = "embed"
                   /\ run.log[n - 1].pos = e.pos
                   /\ run.log[n - 1].outcome = "vector"
    /\ \A a, b \in 1..Len(run.inserted) :
          a < b => run.inserted[a].section_order < run.inserted[b].section_order
    /\ Len(run.inserted) = Cardinality({n \in 1..Len(run.log) :
                                 run.log[n].op = "insert" /\ run.log[n].outcome = NULL})

\* Three chunks: the first persisted, the second skipped, the third persisted.
C25_Witness ==
    /\ RunReturned
    /\ Len(chunks) = 3
    /\ Len(run.log) = 7
    /\ run.log[4].op = "insert" /\ run.log[4].pos = 1
    /\ run.log[5].op = "embed" /\ run.log[5].pos = 2 /\ run.log[5].outcome = "none"
    /\ run.log[7].op = "insert" /\ run.log[7].pos = 3 /\ run.log[7].outcome = NULL

\* C26: a run in which a section insert fails issues exactly one status write, that write
\* sets error with a non-empty message, the document ends in error with that message, and
\* the run writes ready neither before nor after it.
InsertFailedInRun ==
    \E n \in 1..Len(run.log) : run.log[n].op = "insert" /\ run.log[n].outcome # NULL

C26_FailedInsertWritesErrorOnce ==
    (RunReturned /\ InsertFailedInRun) =>
        /\ Len(run.statusWrites) = 1
        /\ run.statusWrites[1].status = "error"
        /\ run.statusWrites[1].error_message # NULL
        /\ run.statusWrites[1].error_message # ""
        /\ \A n \in 1..Len(run.statusWrites) : run.statusWrites[n].status # "ready"
        /\ status = "error"
        /\ error_message = run.statusWrites[1].error_message
        /\ response = 500

\* The insert of the second chunk fails with an error that carries no message, after the
\* first chunk was persisted.
C26_Witness ==
    /\ RunReturned
    /\ InsertFailedInRun
    /\ Len(run.inserted) = 1
    /\ run.log[Len(run.log)].outcome = ""
    /\ status = "error"

(***************************************************************************)
(* Greedy packing of splitIntoChunks, checked under SpecSplit              *)
(***************************************************************************)
\* C27: splitIntoChunks packs greedily.  A sentence joins the chunk under construction
\* exactly when length(current) + 1 + length(sentence) <= maxChunkSize: every sentence of
\* a chunk after its first fitted when it was appended, and for every two consecutive
\* chunks the first chunk plus one space plus the first sentence of the second is longer
\* than maxChunkSize.
C27_PackingIsGreedy ==
    SplitReturned =>
        LET max == u_args.maxChunkSize
        IN \E groups \in Groupings(Sentences(u_args.text)) :
              /\ ChunksAre(u_ret, groups)
              /\ \A g \in 1..Len(groups) : \A k \in 2..Len(groups[g]) :
                    Len(JoinWith(SubSeq(groups[g], 1, k - 1), <<32>>)) + 1
                        + Len(groups[g][k]) <= max
              /\ \A g \in 1..(Len(groups) - 1) :
                    Len(u_ret[g]) + 1 + Len(groups[g + 1][1]) > max

\* A chunk of two sentences that fills maxChunkSize exactly, followed by another chunk.
C27_Witness ==
    /\ SplitReturned
    /\ Len(u_ret) >= 2
    /\ Len(u_ret[1]) = u_args.maxChunkSize
    /\ \E groups \in Groupings(Sentences(u_args.text)) :
          /\ ChunksAre(u_ret, groups)
          /\ Len(groups[1]) = 2

(***************************************************************************)
(* Response of the ingest worker, checked under SpecIngest                 *)
(***************************************************************************)
WroteStatus(st) ==
    \E n \in 1..Len(run.statusWrites) :
        run.statusWrites[n].status = st /\ run.statusWrites[n].outcome = "ok"

\* C28: the response of the worker agrees with the status the run leaves behind: 200
\* exactly when the run set the document to ready, 500 exactly when the run set it to
\* error.
C28_ResponseAgreesWithStatus ==
    RunReturned =>
        /\ (response = 200) <=> (WroteStatus("ready") /\ status = "ready")
        /\ (response = 500) <=> (WroteStatus("error") /\ status = "error")

(***************************************************************************)
(* Properties of the POST of /api/ask-question, checked under SpecAsk      *)
(***************************************************************************)
AskReturned == a_pc = "done"

\* C29: when the embedding of the question, the retrieval or the completion fails inside
\* the handler, the handler returns a response of status 500 that carries an error
\* message; it never returns nothing and never returns a success.
C29_FailureReachesTheCaller ==
    (AskReturned /\ a_failure \in {"embedding", "retrieval", "completion"}) =>
        /\ a_response.isResponse
        /\ a_response.status = 500
        /\ a_response.key = "error"
        /\ a_response.text # <<>>
        /\ a_response.text # <<"">>

(***************************************************************************)
(* An embedding call that raises, checked under SpecIngest                 *)
(***************************************************************************)
\* The positions of the chunks whose embedding call raised in this run.
EmbedRaisedAt ==
    {run.log[n].pos : n \in {m \in 1..Len(run.log) :
                                 run.log[m].op = "embed" /\ run.log[m].outcome = "throws"}}

\* C30: when the embedding provider raises for chunk k, the run stops at that chunk (the
\* raising call is the last call of the run), the document ends in error with the
\* provider's message and a 500 response, the sections persisted for earlier chunks
\* remain, and no section is inserted for chunk k or a later chunk.
C30_EmbeddingErrorStopsTheRun ==
    \A k \in EmbedRaisedAt :
        /\ w_pc = "done"
        /\ run.log[Len(run.log)] = [op |-> "embed", pos |-> k, outcome |-> "throws"]
        /\ status = "error"
        /\ error_message = EmbedErrorMessage
        /\ response = 500
        /\ sections = run.sectionsAtStart \o run.inserted
        /\ \A n \in 1..Len(run.inserted) : run.inserted[n].section_order < k
        /\ \A n \in 1..Len(run.log) : run.log[n].op = "insert" => run.log[n].pos < k

\* The provider raises for the second chunk after the first chunk was persisted.
C30_Witness ==
    /\ RunReturned
    /\ 2 \in EmbedRaisedAt
    /\ Len(run.inserted) = 1
    /\ run.inserted[1].section_order = 1
    /\ Len(sections) >= 1

====
